---- MODULE Spec2Model ----
(***************************************************************************)
(* Model of comment_moderator.py: the sequential pipeline of main()        *)
(* (makedirs, load, per-comment pre-filter and classification, report,     *)
(* optional filter, export, charts, summary) and its helper functions.     *)
(*                                                                         *)
(* Strings that the code only passes around are TLA+ strings.  A path is a *)
(* sequence of tokens (directory names, "/", a stem, extension tokens such *)
(* as ".json"), a comment text is a sequence of words, and a dict is a     *)
(* TLA+ record whose DOMAIN is the set of keys present.                    *)
(***************************************************************************)
EXTENDS Integers, Sequences, FiniteSets, TLC

\* Bounds of the model.
MaxComments == 3      \* comments in the input file of a pipeline run
MaxLen == 6           \* length of an annotated sequence given to generate_report

\* Program constants.
TopN == 5             \* the [:5] slice of most_offensive
DefaultSeverity == 1  \* x.get('severity', 1)

-----------------------------------------------------------------------------
(* Dicts *)

Has(d, k) == k \in DOMAIN d

Get(d, k, default) == IF k \in DOMAIN d THEN d[k] ELSE default

\* dict.update: keys of other are added, and override the keys already there
Update(d, other) ==
    [k \in DOMAIN d \cup DOMAIN other |-> IF k \in DOMAIN other THEN other[k] ELSE d[k]]

Reverse(s) == [i \in 1..Len(s) |-> s[Len(s) + 1 - i]]

Take(s, n) == SubSeq(s, 1, IF Len(s) < n THEN Len(s) ELSE n)

ClassificationFields == {"is_offensive", "offense_type", "severity", "explanation"}

-----------------------------------------------------------------------------
(* The input file and the pre-filter *)

CensorWords == {"damn", "crap"}

\* profanity.contains_profanity: word-list lookup on the words of the text
contains_profanity(text) == \E i \in 1..Len(text) : text[i] \in CensorWords

\* The comment at position i of the input file: a distinct username per
\* position, clean and profane texts alternating.
InputComment(i) ==
    [username |-> "user" \o ToString(i),
     comment_text |-> IF i % 2 = 1 THEN <<"hello", "there">> ELSE <<"damn", "you">>]

InputComments(n) == [i \in 1..n |-> InputComment(i)]

\* What open()/json.load/data['comments'] finds at --input-file: a file with a
\* 'comments' list, or nothing usable (missing file, bad JSON, no such key).
InputFiles ==
    {[ok |-> FALSE]} \cup {[ok |-> TRUE, comments |-> InputComments(n)] : n \in 0..MaxComments}

\* load_comments: the list, or an exception
load_comments(file) ==
    IF file.ok THEN [raised |-> FALSE, value |-> file.comments]
    ELSE [raised |-> TRUE]

-----------------------------------------------------------------------------
(* The classification service and analyze_comment *)

ErrorDefault ==
    [is_offensive |-> FALSE, offense_type |-> "error",
     severity |-> 1, explanation |-> "Error in analysis"]

Clean == [is_offensive |-> FALSE, offense_type |-> "none", severity |-> 1, explanation |-> "fine"]
Toxic4 == [is_offensive |-> TRUE, offense_type |-> "toxicity", severity |-> 4, explanation |-> "insult"]
Harass4 == [is_offensive |-> TRUE, offense_type |-> "harassment", severity |-> 4, explanation |-> "threat"]
Hate5 == [is_offensive |-> TRUE, offense_type |-> "hate_speech", severity |-> 5, explanation |-> "slur"]
ToxicNoSeverity == [is_offensive |-> TRUE, offense_type |-> "toxicity", explanation |-> "rude"]

\* JSON objects the service may answer with: the four fields, or some of them,
\* or other keys altogether.
JsonObjects ==
    {Clean, Toxic4, Harass4,
     [is_offensive |-> FALSE],
     [is_offensive |-> TRUE],
     [is_offensive |-> TRUE, offense_type |-> "profanity"],
     [verdict |-> "clean"]}

\* Outcomes of openai.ChatCompletion.create: the call raises, or it returns a
\* message whose content is not JSON, is a JSON number, or is a JSON object.
Responses ==
    {[kind |-> "raise"],
     [kind |-> "content", json |-> "invalid"],
     [kind |-> "content", json |-> "number"]}
    \cup {[kind |-> "content", json |-> "object", fields |-> o] : o \in JsonObjects}

\* json.loads on the message content
json_loads(resp) ==
    CASE resp.json = "invalid" -> [raised |-> TRUE]
      [] resp.json = "number"  -> [raised |-> FALSE, value |-> [type |-> "int"]]
      [] resp.json = "object"  -> [raised |-> FALSE, value |-> [type |-> "dict", fields |-> resp.fields]]

\* analyze_comment: whatever json.loads returns, or the error default when the
\* call or json.loads raises
analyze_comment(resp) ==
    IF resp.kind = "raise" THEN [type |-> "dict", fields |-> ErrorDefault]
    ELSE LET parsed == json_loads(resp)
         IN  IF parsed.raised THEN [type |-> "dict", fields |-> ErrorDefault]
             ELSE parsed.value

-----------------------------------------------------------------------------
(* generate_report *)

IsOffensive(c) == c["is_offensive"]

SeverityKey(c) == Get(c, "severity", DefaultSeverity)

RECURSIVE SelectOffensive(_)
SelectOffensive(s) ==
    IF s = <<>> THEN <<>>
    ELSE IF IsOffensive(Head(s)) THEN <<Head(s)>> \o SelectOffensive(Tail(s))
         ELSE SelectOffensive(Tail(s))

\* insert c into the ascending sequence s after every element whose key is not
\* greater: the stable insertion
RECURSIVE InsertAscending(_, _)
InsertAscending(s, c) ==
    IF s = <<>> THEN <<c>>
    ELSE IF SeverityKey(s[Len(s)]) <= SeverityKey(c) THEN Append(s, c)
         ELSE Append(InsertAscending(SubSeq(s, 1, Len(s) - 1), c), s[Len(s)])

RECURSIVE SortAscending(_)
SortAscending(s) ==
    IF s = <<>> THEN <<>>
    ELSE InsertAscending(SortAscending(SubSeq(s, 1, Len(s) - 1)), s[Len(s)])

\* a descending sort that reverses the ascending result: ties come out in
\* reverse input order
SortedReverseUnstable(s) == Reverse(SortAscending(s))

\* sorted(..., key=severity, reverse=True): list.sort reverses the list, sorts
\* it ascending (stably) and reverses the result
SortedReverse(s) == Reverse(SortAscending(Reverse(s)))

\* Counter(c['offense_type'] for c in ... ) over every comment
CountAllTypes(s) ==
    [t \in {s[i]["offense_type"] : i \in 1..Len(s)} |->
        Cardinality({i \in 1..Len(s) : s[i]["offense_type"] = t})]

\* Counter(c['offense_type'] for c in analyzed_comments if c['is_offensive'])
OffenseTypes(s) ==
    LET off == {i \in 1..Len(s) : IsOffensive(s[i])}
    IN  [t \in {s[i]["offense_type"] : i \in off} |->
            Cardinality({i \in off : s[i]["offense_type"] = t})]

\* the KeyError of c['is_offensive'] / c['offense_type']
ReportRaises(s) ==
    \/ \E i \in 1..Len(s) : ~Has(s[i], "is_offensive")
    \/ \E i \in 1..Len(s) : IsOffensive(s[i]) /\ ~Has(s[i], "offense_type")

generate_report(s) ==
    [total_comments |-> Len(s),
     offensive_comments |-> Cardinality({i \in 1..Len(s) : IsOffensive(s[i])}),
     offense_types |-> OffenseTypes(s),
     most_offensive |-> Take(SortedReverse(SelectOffensive(s)), TopN),
     all_offensive |-> SelectOffensive(s)]

\* report before line 136 has run
NoReport == [computed |-> FALSE]

-----------------------------------------------------------------------------
(* Paths *)

Extensions == {".json", ".txt", ".html", ".png"}

RECURSIVE LastSlash(_)
LastSlash(path) ==
    IF path = <<>> THEN 0
    ELSE IF path[Len(path)] = "/" THEN Len(path)
         ELSE LastSlash(SubSeq(path, 1, Len(path) - 1))

\* os.path.dirname: what precedes the last "/"
dirname(path) == SubSeq(path, 1, LastSlash(path) - 1)

\* os.makedirs(name, exist_ok=True) raises FileNotFoundError on the empty name
MakedirsRaises(name) == name = <<>>

\* output_file.replace('.json', '_offensive.json'): every occurrence
RECURSIVE ReplaceJson(_)
ReplaceJson(path) ==
    IF path = <<>> THEN <<>>
    ELSE IF Head(path) = ".json" THEN <<"_offensive", ".json">> \o ReplaceJson(Tail(path))
         ELSE <<Head(path)>> \o ReplaceJson(Tail(path))

\* os.path.splitext(path)[0]: the path without the extension of its last
\* component (a component that is only an extension keeps it)
SplitextRoot(path) ==
    IF /\ Len(path) > 1
       /\ path[Len(path)] \in Extensions
       /\ path[Len(path) - 1] # "/"
    THEN SubSeq(path, 1, Len(path) - 1)
    ELSE path

\* os.path.splitext(output_file)[0] + marker + plot_format
ChartPath(out, marker, fmt) == SplitextRoot(out) \o <<marker, "." \o fmt>>

OutputFiles ==
    {<<"output", "/", "analyzed_comments", ".json">>,
     <<"output", "/", "report", ".txt">>,
     <<"analyzed_comments", ".json">>}

-----------------------------------------------------------------------------
(* State of a run of main() *)

VARIABLES
    pc,                \* position of main()
    error,             \* the exception that ended the run, "none" while there is none
    input_file,        \* content found at --input-file
    output_file,       \* the local output_file (reassigned at line 141)
    filter_offensive,  \* --filter-offensive
    create_plots,      \* --create-plots
    plot_format,       \* --plot-format
    comments,          \* the local comments (reassigned at line 140)
    idx,               \* position of the for loop of line 127, 1-based
    requests,          \* the exchanges with the service, in order: the position
                       \* of the comment sent and the response to it
    report,            \* the local report
    files,             \* files written by the run
    plot_calls         \* calls of the plot_* functions made so far

vars ==
    <<pc, error, input_file, output_file, filter_offensive, create_plots,
      plot_format, comments, idx, requests, report, files, plot_calls>>

Init ==
    /\ pc = "makedirs"
    /\ error = "none"
    /\ input_file \in InputFiles
    /\ output_file \in OutputFiles
    /\ filter_offensive \in BOOLEAN
    /\ create_plots \in BOOLEAN
    /\ plot_format \in {"html", "png"}
    /\ comments = <<>>
    /\ idx = 1
    /\ requests = <<>>
    /\ report = NoReport
    /\ files = {}
    /\ plot_calls = 0

\* an exception leaves main(): the process terminates
Abort(e) == pc' = "aborted" /\ error' = e

\* line 115
Makedirs ==
    /\ pc = "makedirs"
    /\ IF MakedirsRaises(dirname(output_file))
       THEN Abort("FileNotFoundError")
       ELSE pc' = "load" /\ error' = error
    /\ UNCHANGED <<input_file, output_file, filter_offensive, create_plots,
                   plot_format, comments, idx, requests, report, files, plot_calls>>

\* lines 118-123
LoadComments ==
    /\ pc = "load"
    /\ LET loaded == load_comments(input_file)
       IN  IF loaded.raised
           THEN Abort("LoadError") /\ comments' = comments
           ELSE pc' = "loop" /\ error' = error /\ comments' = loaded.value
    /\ UNCHANGED <<input_file, output_file, filter_offensive, create_plots,
                   plot_format, idx, requests, report, files, plot_calls>>

\* line 129
Prefilter ==
    /\ pc = "loop"
    /\ idx <= Len(comments)
    /\ comments' = [comments EXCEPT ![idx] =
           Update(@, [contains_profanity |-> contains_profanity(@["comment_text"])])]
    /\ pc' = "classify"
    /\ UNCHANGED <<error, input_file, output_file, filter_offensive, create_plots,
                   plot_format, idx, requests, report, files, plot_calls>>

\* a second request for the same comment when the first one failed
SendRequestWithRetry(log, i, resp) ==
    LET exchange == [comment |-> i, response |-> resp]
    IN  IF resp.kind = "raise" THEN Append(Append(log, exchange), exchange)
        ELSE Append(log, exchange)

\* lines 26-33: one request per call of analyze_comment
SendRequest(log, i, resp) == Append(log, [comment |-> i, response |-> resp])

\* lines 132-133: the service answers resp; comment.update(analysis) raises
\* TypeError when analysis is not a mapping
Classify ==
    /\ pc = "classify"
    /\ \E resp \in Responses :
          LET analysis == analyze_comment(resp)
          IN  /\ requests' = SendRequest(requests, idx, resp)
              /\ IF analysis.type = "dict"
                 THEN /\ comments' = [comments EXCEPT ![idx] = Update(@, analysis.fields)]
                      /\ idx' = idx + 1
                      /\ pc' = "loop"
                      /\ error' = error
                 ELSE /\ Abort("TypeError")
                      /\ UNCHANGED <<comments, idx>>
    /\ UNCHANGED <<input_file, output_file, filter_offensive, create_plots,
                   plot_format, report, files, plot_calls>>

\* line 136, reached when the for loop is exhausted
GenerateReport ==
    /\ pc = "loop"
    /\ idx > Len(comments)
    /\ IF ReportRaises(comments)
       THEN Abort("KeyError") /\ report' = report
       ELSE pc' = "filter" /\ error' = error /\ report' = generate_report(comments)
    /\ UNCHANGED <<input_file, output_file, filter_offensive, create_plots,
                   plot_format, comments, idx, requests, files, plot_calls>>

\* a filter that keeps every comment
KeepAll(s) == s

\* line 140
FilterComments(s) == SelectOffensive(s)

\* lines 139-141
Filter ==
    /\ pc = "filter"
    /\ IF filter_offensive
       THEN /\ comments' = FilterComments(comments)
            /\ output_file' = ReplaceJson(output_file)
       ELSE UNCHANGED <<comments, output_file>>
    /\ pc' = "export"
    /\ UNCHANGED <<error, input_file, filter_offensive, create_plots,
                   plot_format, idx, requests, report, files, plot_calls>>

\* export_to_json: the file, or the OSError of open()
Export ==
    /\ pc = "export"
    /\ \E ok \in BOOLEAN :
          IF ok
          THEN /\ files' = files \cup {[path |-> output_file, format |-> "json", data |-> comments]}
               /\ pc' = "visualize"
               /\ error' = error
          ELSE Abort("WriteError") /\ files' = files
    /\ UNCHANGED <<input_file, output_file, filter_offensive, create_plots,
                   plot_format, comments, idx, requests, report, plot_calls>>

\* a condition that looks at the flag alone
PlotsRequestedOnly == create_plots

\* line 147
PlotsRequested == create_plots /\ DOMAIN report.offense_types # {}

SkipPlots ==
    /\ pc = "visualize"
    /\ ~PlotsRequested
    /\ pc' = "summary"
    /\ UNCHANGED <<error, input_file, output_file, filter_offensive, create_plots,
                   plot_format, comments, idx, requests, report, files, plot_calls>>

\* fig.write_html(output_file): the file holds HTML whatever its name
WriteHtml(path, chart) == [path |-> path, format |-> "html", chart |-> chart]

\* lines 149-151: plot_offense_distribution, which may raise
PlotOffense ==
    /\ pc = "visualize"
    /\ PlotsRequested
    /\ plot_calls' = plot_calls + 1
    /\ \E ok \in BOOLEAN :
          IF ok
          THEN /\ files' = files \cup
                     {WriteHtml(ChartPath(output_file, "_offense_distribution", plot_format), "bar")}
               /\ pc' = "plot_severity"
               /\ error' = error
          ELSE Abort("RenderError") /\ files' = files
    /\ UNCHANGED <<input_file, output_file, filter_offensive, create_plots,
                   plot_format, comments, idx, requests, report>>

\* lines 154-156: plot_severity_distribution, which may raise
PlotSeverity ==
    /\ pc = "plot_severity"
    /\ plot_calls' = plot_calls + 1
    /\ \E ok \in BOOLEAN :
          IF ok
          THEN /\ files' = files \cup
                     {WriteHtml(ChartPath(output_file, "_severity_distribution", plot_format), "pie")}
               /\ pc' = "summary"
               /\ error' = error
          ELSE Abort("RenderError") /\ files' = files
    /\ UNCHANGED <<input_file, output_file, filter_offensive, create_plots,
                   plot_format, comments, idx, requests, report>>

\* the KeyError of comment['username'] / comment['explanation'] in the listings
SummaryRaises(r) ==
    \E i \in 1..Len(r.all_offensive) :
        \/ ~Has(r.all_offensive[i], "username")
        \/ ~Has(r.all_offensive[i], "comment_text")
        \/ ~Has(r.all_offensive[i], "explanation")

\* lines 159-184
Summary ==
    /\ pc = "summary"
    /\ IF SummaryRaises(report)
       THEN Abort("KeyError")
       ELSE pc' = "done" /\ error' = error
    /\ UNCHANGED <<input_file, output_file, filter_offensive, create_plots,
                   plot_format, comments, idx, requests, report, files, plot_calls>>

Next ==
    \/ Makedirs
    \/ LoadComments
    \/ Prefilter
    \/ Classify
    \/ GenerateReport
    \/ Filter
    \/ Export
    \/ SkipPlots
    \/ PlotOffense
    \/ PlotSeverity
    \/ Summary

Spec == Init /\ [][Next]_vars

-----------------------------------------------------------------------------
(* generate_report on its own: the run stands at line 136 with every comment *)
(* of a longer input annotated.                                              *)

\* lines 129-133 for the comment at position i, answered by resp
Annotate(i, resp) ==
    LET c == InputComment(i)
        filtered == Update(c, [contains_profanity |-> contains_profanity(c["comment_text"])])
    IN  Update(filtered, analyze_comment(resp).fields)

ReportResponses ==
    {[kind |-> "raise"]}
    \cup {[kind |-> "content", json |-> "object", fields |-> o] :
            o \in {Toxic4, Harass4, Hate5, ToxicNoSeverity}}

InitReport ==
    /\ pc = "loop"
    /\ error = "none"
    /\ output_file = <<"output", "/", "analyzed_comments", ".json">>
    /\ filter_offensive = FALSE
    /\ create_plots = TRUE
    /\ plot_format = "html"
    /\ \E n \in 0..MaxLen :
          \E answers \in [1..n -> ReportResponses] :
             /\ input_file = [ok |-> TRUE, comments |-> InputComments(n)]
             /\ comments = [i \in 1..n |-> Annotate(i, answers[i])]
             /\ requests = [i \in 1..n |-> [comment |-> i, response |-> answers[i]]]
             /\ idx = n + 1
    /\ report = NoReport
    /\ files = {}
    /\ plot_calls = 0

NextReport == GenerateReport

SpecReport == InitReport /\ [][NextReport]_vars


-----------------------------------------------------------------------------
(* Properties *)

ReportComputed == Has(report, "total_comments")

\* the number of comments loaded
N == IF input_file.ok THEN Len(input_file.comments) ELSE 0

ExportFiles == {f \in files : f.format = "json"}

ChartFiles == {f \in files : Has(f, "chart")}

Exported == (CHOOSE f \in ExportFiles : TRUE).data

\* position in the input file of the comment carrying username u
InputPosition(u) == CHOOSE j \in 1..N : input_file.comments[j]["username"] = u

RECURSIVE SumCounts(_)
SumCounts(counts) ==
    IF DOMAIN counts = {} THEN 0
    ELSE LET t == CHOOSE k \in DOMAIN counts : TRUE
         IN  counts[t] + SumCounts([k \in DOMAIN counts \ {t} |-> counts[k]])

\* the response is a failed classification: the call raised, or the content is
\* not a JSON object with exactly the four fields
FailedResponse(resp) ==
    \/ resp.kind = "raise"
    \/ resp.json # "object"
    \/ DOMAIN resp.fields # ClassificationFields

\* the comment at position k as lines 129-133 leave it after a failure
ErrorRecord(k) ==
    [username |-> input_file.comments[k]["username"],
     comment_text |-> input_file.comments[k]["comment_text"],
     contains_profanity |-> contains_profanity(input_file.comments[k]["comment_text"]),
     is_offensive |-> FALSE, offense_type |-> "error", severity |-> 1,
     explanation |-> "Error in analysis"]

\* C1: every failed classification (the call raises, the content is not JSON,
\* or it is JSON of another shape) leaves the error default in the comment's
\* record, and no run is ended by an exception that such a response causes
\* (the TypeError of update, the KeyError of the report or of the summary).
C1_FailureAbsorbed ==
    \A k \in 1..Len(requests) :
        FailedResponse(requests[k].response) =>
            /\ error \notin {"TypeError", "KeyError"}
            /\ (~ReportComputed /\ pc # "aborted") => comments[k] = ErrorRecord(k)

\* C2: when generate_report is about to be called (the loop is exhausted),
\* every record carries is_offensive, offense_type, severity and explanation.
C2_RecordsCompleteAtAggregation ==
    (pc = "loop" /\ idx > Len(comments)) =>
        \A i \in 1..Len(comments) : ClassificationFields \subseteq DOMAIN comments[i]

\* C3: most_offensive has at most 5 records, all of them offensive records of
\* all_offensive, ordered by severity descending, and records of equal
\* severity keep the order they have in all_offensive (the input order).
C3_MostOffensive ==
    ReportComputed =>
        LET m == report.most_offensive
            a == report.all_offensive
            PosInAll(c) == CHOOSE k \in 1..Len(a) : a[k] = c
        IN  /\ Len(m) <= 5
            /\ \A i \in 1..Len(m) :
                  /\ m[i]["is_offensive"] = TRUE
                  /\ \E k \in 1..Len(a) : a[k] = m[i]
            /\ \A i, j \in 1..Len(m) :
                  i < j =>
                     /\ SeverityKey(m[i]) >= SeverityKey(m[j])
                     /\ SeverityKey(m[i]) = SeverityKey(m[j]) => PosInAll(m[i]) < PosInAll(m[j])
                     /\ SeverityKey(m[i]) = SeverityKey(m[j]) =>
                           InputPosition(m[i]["username"]) < InputPosition(m[j]["username"])

\* C3 witness: six offensive comments, five of them kept, two of the kept ones
\* tied on severity 4 with toxicity before harassment.
C3_Witness ==
    /\ ReportComputed
    /\ Len(report.all_offensive) = 6
    /\ Len(report.most_offensive) = 5
    /\ \E i \in 1..4 :
          /\ report.most_offensive[i]["offense_type"] = "toxicity"
          /\ report.most_offensive[i + 1]["offense_type"] = "harassment"
          /\ report.most_offensive[i]["severity"] = 4
          /\ report.most_offensive[i + 1]["severity"] = 4
    /\ \E i \in 1..5 : ~Has(report.most_offensive[i], "severity")

\* C4: the counts of offense_types sum to offensive_comments, which is the
\* number of records with is_offensive true and the length of all_offensive;
\* total_comments is the length of the sequence.
C4_Counts ==
    (ReportComputed /\ pc = "filter") =>
        /\ SumCounts(report.offense_types) = report.offensive_comments
        /\ report.offensive_comments =
              Cardinality({i \in 1..Len(comments) : comments[i]["is_offensive"] = TRUE})
        /\ report.offensive_comments = Len(report.all_offensive)
        /\ report.total_comments = Len(comments)
        /\ \A t \in DOMAIN report.offense_types :
              report.offense_types[t] =
                 Cardinality({i \in 1..Len(comments) :
                    comments[i]["is_offensive"] = TRUE /\ comments[i]["offense_type"] = t})

\* C4 witness: a report over offensive and non-offensive records with two
\* offense types counted.
C4_Witness ==
    /\ ReportComputed
    /\ pc = "filter"
    /\ report.total_comments = 4
    /\ report.offensive_comments = 3
    /\ Cardinality(DOMAIN report.offense_types) = 2

\* C5: with --filter-offensive every exported record is offensive, the
\* exported records are the offensive records of the input in input order (one
\* per offensive comment, positions strictly increasing), and there are at
\* most N of them.
C5_FilteredExport ==
    (filter_offensive /\ ExportFiles # {}) =>
        LET x == Exported
        IN  /\ Cardinality(ExportFiles) = 1
            /\ \A i \in 1..Len(x) : x[i]["is_offensive"] = TRUE
            /\ Len(x) <= N
            /\ Len(x) = report.offensive_comments
            /\ \A i, j \in 1..Len(x) :
                  i < j => InputPosition(x[i]["username"]) < InputPosition(x[j]["username"])

\* C5 witness: three comments, the second one not offensive, the export of the
\* first and the third.
C5_Witness ==
    /\ filter_offensive
    /\ ExportFiles # {}
    /\ N = 3
    /\ Len(Exported) = 2
    /\ Exported[1]["username"] = "user1"
    /\ Exported[2]["username"] = "user3"

\* C6: without --filter-offensive the export has N records, the i-th one
\* carrying the username and comment_text of the i-th input record, and
\* contains_profanity and the four classification fields.
C6_UnfilteredExport ==
    (~filter_offensive /\ ExportFiles # {}) =>
        LET x == Exported
        IN  /\ Len(x) = N
            /\ \A i \in 1..Len(x) :
                  /\ x[i]["username"] = input_file.comments[i]["username"]
                  /\ x[i]["comment_text"] = input_file.comments[i]["comment_text"]
                  /\ Has(x[i], "contains_profanity")
                  /\ ClassificationFields \subseteq DOMAIN x[i]

\* the run is past line 147
PlotsDecided == ExportFiles # {} /\ pc # "visualize"

\* C7: charts are rendered if and only if --create-plots is on and
\* offense_types is not empty; when no comment is offensive no chart is
\* rendered or written, the export is written when the summary is reached, and
\* nothing but a failing write of the export ends the run early.
C7_PlotsIffRequestedAndOffenses ==
    /\ plot_calls > 0 => PlotsDecided
    /\ PlotsDecided =>
          (plot_calls > 0 <=> (create_plots /\ DOMAIN report.offense_types # {}))
    /\ (ReportComputed /\ report.offensive_comments = 0) =>
          /\ plot_calls = 0
          /\ ChartFiles = {}
          /\ pc \in {"summary", "done"} => ExportFiles # {}
          /\ pc = "aborted" => error = "WriteError"

\* C7 witness: --create-plots, comments but none offensive, the run done with
\* the export written and no chart.
C7_Witness ==
    /\ pc = "done"
    /\ create_plots
    /\ report.total_comments = 2
    /\ report.offensive_comments = 0
    /\ ExportFiles # {}
    /\ ChartFiles = {}

\* C8: no chart is attempted before the export is written, and a failure of a
\* chart does not end the run.
C8_ChartFailureNotFatal ==
    /\ plot_calls > 0 => ExportFiles # {}
    /\ pc = "aborted" => error # "RenderError"

\* C9: a run that has rendered its charts has written exactly two chart files,
\* named after the exported file with _offense_distribution and
\* _severity_distribution before the extension, each in the format of
\* --plot-format.
C9_ChartFiles ==
    (plot_calls > 0 /\ pc \in {"summary", "done"}) =>
        LET out == (CHOOSE f \in ExportFiles : TRUE).path
            stem == SubSeq(out, 1, Len(out) - 1)
        IN  /\ Cardinality(ChartFiles) = 2
            /\ {f.path : f \in ChartFiles} =
                  {stem \o <<"_offense_distribution", "." \o plot_format>>,
                   stem \o <<"_severity_distribution", "." \o plot_format>>}
            /\ \A f \in ChartFiles : f.format = plot_format

\* C10: the comments are sent to the service in input order, each one once and
\* after its pre-filter, whatever the pre-filter and the service said; records
\* not yet reached are untouched; the report is computed only after every
\* comment was sent, the export written only after the report, a chart
\* rendered only after the export.
C10_Order ==
    /\ \A k \in 1..Len(requests) : requests[k].comment = k
    /\ Len(requests) <= N
    /\ (pc \in {"loop", "classify"}) => Len(requests) = idx - 1
    /\ (pc = "classify") =>
          /\ Has(comments[idx], "contains_profanity")
          /\ DOMAIN comments[idx] \cap ClassificationFields = {}
    /\ (pc \in {"loop", "classify"}) =>
          /\ \A i \in 1..Len(requests) : Has(comments[i], "contains_profanity")
          /\ \A i \in 1..Len(comments) :
                (i > idx \/ (i = idx /\ pc = "loop")) => comments[i] = input_file.comments[i]
    /\ ReportComputed => Len(requests) = N
    /\ ExportFiles # {} => ReportComputed
    /\ plot_calls > 0 => ExportFiles # {}

\* C10 witness: three comments, the first call failed, the second comment
\* profane and the third not, both classified, and both charts rendered.
C10_Witness ==
    /\ pc = "done"
    /\ Len(requests) = 3
    /\ requests[1].response.kind = "raise"
    /\ plot_calls = 2
    /\ Cardinality(ChartFiles) = 2

====
